---- MODULE Spec2Model ----
(***************************************************************************)
(* A model of depcheck/update-cargo-dependencies.py: the manifest pass     *)
(* (version selection against the crates.io index, pin bump, resolver      *)
(* invocation, commit) followed by the Cargo.lock convergence loop.        *)
(***************************************************************************)
EXTENDS Integers, Sequences, FiniteSets, TLC

VARIABLES
    pc,               \* where the script is: "select", "manifest", "lockread",
                      \* "lockiter", "report", "done", "aborted"
    error,            \* the exception that ended the run ("" while none)
    env,              \* behaviour of the external tools: "free" or "chain"
    disabled,         \* AUTOUPDATE_DISABLED
    index,            \* crates.io-index: package name -> lines of its info file
    cargo,            \* the parsed Cargo.toml held in memory
    manifest,         \* ../Cargo.toml on disk
    lock,             \* ../Cargo.lock on disk
    start,            \* Cargo.toml and Cargo.lock as the run found them
    head,             \* the last commit's Cargo.toml and Cargo.lock
    refreshes,        \* how often the index has been refreshed
    tier_items,       \* cargo-upgrade script: the items the inner for loop iterates
    i,                \* the dependency the manifest pass is at
    name,             \* the characters of the name of that dependency
    info_file,        \* the path of its info file: the components of the path
    latest_version,   \* latest_version of the last selection
    update_necessary, \* the flag of the same name
    cargo_lock,       \* the Cargo.lock read by the current pass
    j,                \* the package of cargo_lock the pass is at
    commits,          \* the commits made, oldest first
    trace             \* what the run did, in order

vars == <<pc, error, refreshes, env, tier_items, disabled, index, cargo, manifest, lock, start, head, i,
          name, info_file, latest_version, update_necessary, cargo_lock, j, commits, trace>>

----------------------------------------------------------------------------
(* Bounds of the model *)

\* lines of an index file in the selection specification
MaxRecords == 3
\* lines of an index file in the full run
MaxIndexLines == 2
\* packages of Cargo.lock
NLock == 3
\* updates of locked packages the resolver can find in all
MaxUpdates == 2
\* the longest name of the sharding specification
MaxNameLen == 5
\* the highest pin cargo upgrade can reach
MaxPin == 2

----------------------------------------------------------------------------
(* Versions: semver.VersionInfo.  A prerelease is the sequence of its      *)
(* dot-separated identifiers, <<>> when the version has none (None).  An   *)
(* identifier is numeric, or alphanumeric with val its rank in string      *)
(* order ("alpha" < "beta").                                               *)

Num(n) == [num |-> TRUE, val |-> n]
Alpha == [num |-> FALSE, val |-> 1]
Beta == [num |-> FALSE, val |-> 2]

Ver(ma, mi, pa, pre) == [major |-> ma, minor |-> mi, patch |-> pa, prerelease |-> pre]

V100a1 == Ver(1, 0, 0, <<Alpha, Num(1)>>)
V100 == Ver(1, 0, 0, <<>>)
V101 == Ver(1, 0, 1, <<>>)
V110b1 == Ver(1, 1, 0, <<Beta, Num(1)>>)
V190 == Ver(1, 9, 0, <<>>)
V200 == Ver(2, 0, 0, <<>>)

\* latest_version = None
None == Ver(-1, -1, -1, <<>>)

cmp(a, b) == IF a < b THEN -1 ELSE IF a > b THEN 1 ELSE 0

cmp_prerelease_tag(a, b) ==
    IF a.num /\ b.num THEN cmp(a.val, b.val)
    ELSE IF a.num THEN -1
    ELSE IF b.num THEN 1
    ELSE cmp(a.val, b.val)

RECURSIVE nat_cmp_from(_, _, _)
nat_cmp_from(a, b, k) ==
    IF k > Len(a) \/ k > Len(b) THEN cmp(Len(a), Len(b))
    ELSE LET r == cmp_prerelease_tag(a[k], b[k])
         IN  IF r # 0 THEN r ELSE nat_cmp_from(a, b, k + 1)

nat_cmp(a, b) == nat_cmp_from(a, b, 1)

compare(v1, v2) ==
    IF cmp(v1.major, v2.major) # 0 THEN cmp(v1.major, v2.major)
    ELSE IF cmp(v1.minor, v2.minor) # 0 THEN cmp(v1.minor, v2.minor)
    ELSE IF cmp(v1.patch, v2.patch) # 0 THEN cmp(v1.patch, v2.patch)
    ELSE LET rccmp == nat_cmp(v1.prerelease, v2.prerelease)
         IN  IF rccmp = 0 THEN 0
             ELSE IF v1.prerelease = <<>> THEN 1
             ELSE IF v2.prerelease = <<>> THEN -1
             ELSE rccmp

----------------------------------------------------------------------------
(* Version selection: the loop over the lines of the info file *)

SkipPrereleaseAlways(current_version, version) ==
    version.prerelease # <<>>

SkipPrerelease(current_version, version) ==
    current_version.prerelease = <<>> /\ version.prerelease # <<>>

RECURSIVE LatestFrom(_, _, _)
LatestFrom(current_version, lines, latest) ==
    IF lines = <<>> THEN latest
    ELSE LET version == Head(lines)
         IN  IF latest = None \/ compare(version, latest) > 0
             THEN IF SkipPrerelease(current_version, version)
                  THEN LatestFrom(current_version, Tail(lines), latest)
                  ELSE LatestFrom(current_version, Tail(lines), version)
             ELSE LatestFrom(current_version, Tail(lines), latest)

LatestVersion(current_version, lines) == LatestFrom(current_version, lines, None)

----------------------------------------------------------------------------
(* The manifest, the index and the lockfile *)

\* cargo[tier].items() for tier in ["dependencies", "dev-dependencies"]
DepOrder ==
    << [tier |-> "dependencies", name |-> "clap"],
       [tier |-> "dev-dependencies", name |-> "tempdir"] >>

NDeps == Len(DepOrder)
DepNames == {DepOrder[d].name : d \in 1..NDeps}

\* the characters of a name
Chars(nm) ==
    CASE nm = "clap" -> <<"c", "l", "a", "p">>
      [] nm = "tempdir" -> <<"t", "e", "m", "p", "d", "i", "r">>

\* INDEX_DIR
IndexDir == <<"crates.io-index">>

InfoFileFourOnly(nm, previous) ==
    IF Len(nm) > 4 THEN <<IndexDir, SubSeq(nm, 1, 2), SubSeq(nm, 3, 4), nm>>
    ELSE IF Len(nm) = 3 THEN <<IndexDir, <<"3">>, SubSeq(nm, 1, 1), nm>>
    ELSE IF Len(nm) = 2 THEN <<IndexDir, <<"2">>, nm>>
    ELSE IF Len(nm) = 1 THEN <<IndexDir, <<"1">>, nm>>
    ELSE previous

\* info_file after the if/elif chain over len(name); no branch assigns it
\* for another length, and it keeps the value of the previous dependency
InfoFile(nm, previous) ==
    IF Len(nm) >= 4 THEN <<IndexDir, SubSeq(nm, 1, 2), SubSeq(nm, 3, 4), nm>>
    ELSE IF Len(nm) = 3 THEN <<IndexDir, <<"3">>, SubSeq(nm, 1, 1), nm>>
    ELSE IF Len(nm) = 2 THEN <<IndexDir, <<"2">>, nm>>
    ELSE IF Len(nm) = 1 THEN <<IndexDir, <<"1">>, nm>>
    ELSE previous

\* versions a pin or an index line can hold in the full run
RunVersions == {V100, V101, V110b1}
\* versions a pin or an index line can hold in the selection specification
AllVersions == {V100a1, V100, V101, V110b1, V190, V200}

SeqsUpTo(S, n) == UNION {[1..k -> S] : k \in 0..n}

Injective(f) == \A a, b \in DOMAIN f : f[a] = f[b] => a = b

\* info files of at most n lines, one line per published version
InfoFiles(S, n) == {f \in SeqsUpTo(S, n) : Injective(f)}

\* a line json.loads or VersionInfo.parse rejects
Malformed == Ver(-2, -2, -2, <<>>)

\* the info file that is not in the index: open raises
NoFile == <<Ver(-3, -3, -3, <<>>)>>

\* what the index can hold at the path of a dependency of the full run
RunFiles == InfoFiles(RunVersions \cup {Malformed}, MaxIndexLines) \cup {NoFile}

FirstMalformedNone(lines) == 0

\* the first line of the file that does not parse, 0 when all lines parse
FirstMalformed(lines) ==
    IF \E k \in 1..Len(lines) : lines[k] = Malformed
    THEN CHOOSE k \in 1..Len(lines) :
            /\ lines[k] = Malformed
            /\ \A b \in 1..(k - 1) : lines[b] # Malformed
    ELSE 0

\* names of the packages of Cargo.lock, in the order of the file
PackageNames == <<"clap", "tempdir", "libc", "syn", "quote">>

Package(nm, v) == [name |-> nm, version |-> v]

InitialLock == [k \in 1..NLock |-> Package(PackageNames[k], 0)]

\* Cargo.lock of the full run
RunLock == <<Package("clap", 0)>>

\* a step of the run, as the trace records it
Ev(op, nm, ver, lver, ok, changed, n) ==
    [op |-> op, name |-> nm, ver |-> ver, lver |-> lver, ok |-> ok,
     changed |-> changed, n |-> n, flags |-> {}]

Commit(kind, nm, ver, paths, toml, lk) ==
    [kind |-> kind, name |-> nm, ver |-> ver, paths |-> paths, toml |-> toml,
     lock |-> lk]

FreeEnv == [kind |-> "free", chain |-> <<>>]

----------------------------------------------------------------------------
(* The external resolver: cargo update --aggressive --package <spec> *)

RECURSIVE UpdatesFrom(_, _)
UpdatesFrom(lk, k) ==
    IF k > Len(lk) THEN 0 ELSE lk[k].version + UpdatesFrom(lk, k + 1)

\* the updates the resolver has applied to the packages of the lockfile
Updates(lk) == UpdatesFrom(lk, 1)

\* the sets of packages one invocation can update
ChangeSets(lk) ==
    {S \in SUBSET (1..Len(lk)) \ {{}} : Updates(lk) + Cardinality(S) <= MaxUpdates}

Bump(lk, S) ==
    [k \in 1..Len(lk) |->
        IF k \in S THEN Package(lk[k].name, lk[k].version + 1) ELSE lk[k]]

Outcome(ok, stderr, lk, n) == [ok |-> ok, stderr |-> stderr, lock |-> lk, n |-> n]

\* the chain of transitive updates: the first package of the chain not yet
\* updated is the only one an invocation changes
ChainNext(lk) ==
    {c \in 1..Len(env.chain) :
        /\ \E k \in 1..Len(lk) : lk[k].name = env.chain[c] /\ lk[k].version = 0
        /\ \A b \in 1..(c - 1) :
              \E k \in 1..Len(lk) : lk[k].name = env.chain[b] /\ lk[k].version > 0}

ResolverOutcomes(nm, lk) ==
    IF env.kind = "chain"
    THEN IF \E c \in ChainNext(lk) : env.chain[c] = nm
         THEN {Outcome(TRUE, TRUE, Bump(lk, {k \in 1..Len(lk) : lk[k].name = nm}), 1)}
         ELSE {Outcome(TRUE, FALSE, lk, 0)}
    ELSE {Outcome(FALSE, TRUE, lk, 0), Outcome(TRUE, FALSE, lk, 0),
          Outcome(TRUE, TRUE, lk, 0)}
         \cup {Outcome(TRUE, TRUE, Bump(lk, S), Cardinality(S)) :
                  S \in ChangeSets(lk)}

ResolverFlagsRefreshing == {"aggressive"}

\* -Z no-index-update --aggressive
ResolverFlags == {"no-index-update", "aggressive"}

\* cargo update brings its index up to date first unless it is told not to
Refreshed(flags) == IF "no-index-update" \in flags THEN refreshes ELSE refreshes + 1

\* the resolver invocation, as the trace records it
Ran(nm, lver, o) ==
    [Ev("resolve", nm, None, lver, o.ok, o.stderr, o.n) EXCEPT !.flags = ResolverFlags]

----------------------------------------------------------------------------
(* git commit --message <message> <paths> *)

ManifestCommitPaths == {"Cargo.toml", "Cargo.lock"}
LockCommitPaths == {"Cargo.lock"}

\* the paths of the commit that differ from the last commit
Modified(paths, toml, lk) ==
    {p \in paths : \/ p = "Cargo.toml" /\ toml # head.toml
                   \/ p = "Cargo.lock" /\ lk # head.lock}

\* whether git commit exits with 0: it exits with 1 when none of the paths
\* differs from the last commit (nothing to commit)
CommitOutcomes(paths, toml, lk) ==
    IF Modified(paths, toml, lk) # {} THEN {TRUE} ELSE {FALSE}

HeadAfterAll(paths, toml, lk) == [toml |-> toml, lock |-> lk]

\* the last commit after a commit of the paths: the other file stays as it was
HeadAfter(paths, toml, lk) ==
    [toml |-> IF "Cargo.toml" \in paths THEN toml ELSE head.toml,
     lock |-> IF "Cargo.lock" \in paths THEN lk ELSE head.lock]

----------------------------------------------------------------------------
(* The manifest pass: one dependency of one tier per step *)

NoEv(op, nm) == Ev(op, nm, None, -1, TRUE, FALSE, 0)

Abort(exc) == pc' = "aborted" /\ error' = exc

Swallowed(exc) == pc' = pc /\ error' = error

\* raise, in the except clause of a resolver invocation
Reraise(exc) == Abort(exc)

ResolveBeforeWrite(said, wrote, ran) == <<said, ran, wrote>>

\* the order of the manifest pass: the print, the write of Cargo.toml, then
\* the resolver invocation
ManifestSteps(said, wrote, ran) == <<said, wrote, ran>>

\* print(e.stdout) and print(e.stderr), in the except clause
FailureOutput(nm) == <<NoEv("print_stdout", nm), NoEv("print_stderr", nm)>>

AfterDependencyToLoop(d) == "lockread"

\* where the run goes after dependency d: to the next dependency of the for
\* loops, or, past the last one, to the while loop
AfterDependency(d) == IF d + 1 > NDeps THEN "lockread" ELSE "manifest"

\* the for loops over the tiers and their dependencies go on, and the lock
\* loop starts after the last dependency
Continue ==
    /\ i' = i + 1
    /\ pc' = AfterDependency(i)
    /\ error' = error

NeedsUpdateAlways(latest, current_version) == TRUE

\* latest_version != current_version
NeedsUpdate(latest, current_version) == compare(latest, current_version) # 0

\* latest_version < current_version
IsAnomaly(latest, current_version) == compare(latest, current_version) < 0

NewPinAlwaysLatest(latest, current_version) == latest

\* the version of the entry in the document that is written to Cargo.toml
NewPin(latest, current_version) ==
    IF IsAnomaly(latest, current_version) THEN current_version ELSE latest

IsDisabledNever(nm) == FALSE

\* name in AUTOUPDATE_DISABLED
IsDisabled(nm) == nm \in disabled

\* latest_version is None: comparing it with a VersionInfo raises TypeError, at
\* != with a semver that raises on other types, at < with one that returns
\* NotImplemented (and then None != current_version is True)
NoCandidate(nm, current_version) ==
    /\ UNCHANGED <<refreshes, cargo, manifest, lock, head, commits>>
    /\ \/ /\ Abort("TypeError")
          /\ UNCHANGED <<i, update_necessary, trace>>
       \/ /\ ~IsDisabled(nm)
          /\ update_necessary' = TRUE
          /\ Abort("TypeError")
          /\ UNCHANGED <<i, trace>>
       \/ /\ IsDisabled(nm)
          /\ trace' = Append(trace, NoEv("report_disabled", nm))
          /\ Continue
          /\ UNCHANGED update_necessary

Hold ==
    /\ Continue
    /\ UNCHANGED <<refreshes, cargo, manifest, lock, head, commits, update_necessary, trace>>

Disabled(nm, latest) ==
    /\ trace' = Append(trace, Ev("report_disabled", nm, latest, -1, TRUE, FALSE, 0))
    /\ Continue
    /\ UNCHANGED <<refreshes, cargo, manifest, lock, head, commits, update_necessary>>

StaleDocument(doc, d, pin) == [start.toml EXCEPT ![d] = pin]

\* cargo[tier][name]["version"] = ...: the document parsed at the start of the
\* run, with one entry assigned
Document(doc, d, pin) == [doc EXCEPT ![d] = pin]

Update(nm, latest, current_version) ==
    LET pin == NewPin(latest, current_version)
        doc == Document(cargo, i, pin)
        said == IF IsAnomaly(latest, current_version)
                THEN NoEv("warn_anomaly", nm)
                ELSE Ev("new_version", nm, latest, -1, TRUE, FALSE, 0)
        wrote == Ev("write_manifest", nm, pin, -1, TRUE, FALSE, 0)
    IN  /\ update_necessary' = TRUE
        /\ refreshes' = Refreshed(ResolverFlags)
        /\ cargo' = doc
        /\ manifest' = doc
        /\ \E o \in ResolverOutcomes(nm, lock) :
              LET ran == Ran(nm, -1, o)
              IN  /\ lock' = o.lock
                  /\ \/ /\ ~o.ok
                        /\ trace' = trace \o ManifestSteps(said, wrote, ran)
                                            \o FailureOutput(nm)
                        /\ Reraise("CalledProcessError")
                        /\ UNCHANGED <<i, head, commits>>
                     \/ /\ o.ok
                        /\ \E c \in CommitOutcomes(ManifestCommitPaths, doc, o.lock) :
                              LET did == Ev("commit", nm, latest, -1, c, FALSE, 0)
                              IN  /\ trace' = trace \o ManifestSteps(said, wrote, ran)
                                                      \o <<did>>
                                  /\ \/ /\ c
                                        /\ commits' = Append(commits,
                                              Commit("manifest", nm, latest,
                                                     ManifestCommitPaths, doc, o.lock))
                                        /\ head' = HeadAfter(ManifestCommitPaths, doc, o.lock)
                                        /\ Continue
                                     \/ /\ ~c
                                        /\ Abort("CalledProcessError")
                                        /\ UNCHANGED <<i, head, commits>>

\* open or the parse of a line raises: nothing catches it
IndexError(exc) ==
    /\ Abort(exc)
    /\ UNCHANGED <<refreshes, i, cargo, manifest, lock, head, commits, update_necessary, trace>>

ProcessDependency ==
    /\ pc = "manifest"
    /\ i <= NDeps
    /\ LET nm == DepOrder[i].name
           current_version == cargo[i]
           lines == index[nm]
           bad == FirstMalformed(lines)
           latest == IF lines = NoFile THEN None
                     ELSE IF bad # 0
                     THEN LatestVersion(current_version, SubSeq(lines, 1, bad - 1))
                     ELSE LatestVersion(current_version, lines)
       IN  /\ name' = Chars(nm)
           /\ info_file' = InfoFile(Chars(nm), info_file)
           /\ latest_version' = latest
           /\ IF lines = NoFile THEN IndexError("FileNotFoundError")
              ELSE IF bad # 0 THEN IndexError("ValueError")
              ELSE IF latest = None THEN NoCandidate(nm, current_version)
              ELSE IF ~NeedsUpdate(latest, current_version) THEN Hold
              ELSE IF IsDisabled(nm) THEN Disabled(nm, latest)
              ELSE Update(nm, latest, current_version)
    /\ UNCHANGED <<env, tier_items, disabled, index, start, cargo_lock, j>>

----------------------------------------------------------------------------
(* The lock loop: while True / for package in cargo_lock["package"] / else *)

CachedSnapshot(cached, disk) == IF cached = <<>> THEN disk ELSE cached

\* cargo_lock = tomlkit.parse(f.read()): the packages of the file on disk
Snapshot(cached, disk) == disk

\* the top of the while loop: Cargo.lock is read anew
ReadLock ==
    /\ pc = "lockread"
    /\ cargo_lock' = Snapshot(cargo_lock, lock)
    /\ j' = 1
    /\ pc' = "lockiter"
    /\ trace' = Append(trace, NoEv("read_lock", ""))
    /\ UNCHANGED <<error, refreshes, env, tier_items, disabled, index, cargo, manifest, lock, start, head, i,
                   name, info_file, latest_version, update_necessary, commits>>

StderrIgnored(stderr) == FALSE

\* len(cmd.stderr) != 0
ReportsChange(stderr) == stderr

AfterChangeRewind(jj) == [pc |-> "lockiter", j |-> 1]

AfterChangeGoOn(jj) == [pc |-> "lockiter", j |-> jj + 1]

\* break: out of the for loop, back to the top of the while loop
AfterChange(jj) == [pc |-> "lockread", j |-> jj]

\* one iteration of the for loop
UpdatePackage ==
    /\ pc = "lockiter"
    /\ j <= Len(cargo_lock)
    /\ refreshes' = Refreshed(ResolverFlags)
    /\ LET package == cargo_lock[j]
       IN  \E o \in ResolverOutcomes(package.name, lock) :
              LET ran == Ran(package.name, package.version, o)
              IN  /\ lock' = o.lock
                  /\ \/ /\ ~o.ok
                        /\ trace' = trace \o <<ran>> \o FailureOutput(package.name)
                        /\ Reraise("CalledProcessError")
                        /\ UNCHANGED <<j, head, commits, update_necessary>>
                     \/ /\ o.ok
                        /\ ~ReportsChange(o.stderr)
                        /\ trace' = Append(trace, ran)
                        /\ j' = j + 1
                        /\ UNCHANGED <<pc, error, head, commits, update_necessary>>
                     \/ /\ o.ok
                        /\ ReportsChange(o.stderr)
                        /\ update_necessary' = TRUE
                        /\ \E c \in CommitOutcomes(LockCommitPaths, manifest, o.lock) :
                              /\ trace' = trace \o
                                    <<ran, NoEv("print_message", package.name),
                                      Ev("commit", package.name, None, package.version,
                                         c, FALSE, 0)>>
                              /\ \/ /\ c
                                    /\ commits' = Append(commits,
                                          Commit("lock", package.name, None,
                                                 LockCommitPaths, head.toml, o.lock))
                                    /\ head' = HeadAfter(LockCommitPaths, manifest, o.lock)
                                    /\ pc' = AfterChange(j).pc
                                    /\ j' = AfterChange(j).j
                                    /\ error' = error
                                 \/ /\ ~c
                                    /\ Abort("CalledProcessError")
                                    /\ UNCHANGED <<j, head, commits>>
    /\ UNCHANGED <<env, tier_items, disabled, index, cargo, manifest, start, i, name, info_file,
                   latest_version, cargo_lock>>

PassExhaustedEarly(jj, packages) == jj >= Len(packages)

PassExhaustedNever(jj, packages) == FALSE

\* the for loop ran out of packages
PassExhausted(jj, packages) == jj > Len(packages)

\* the else of the for loop: break out of the while loop
AfterPass == "report"

LoopExit ==
    /\ pc = "lockiter"
    /\ PassExhausted(j, cargo_lock)
    /\ pc' = AfterPass
    /\ UNCHANGED <<error, refreshes, env, tier_items, disabled, index, cargo, manifest, lock, start, head, i,
                   name, info_file, latest_version, update_necessary, cargo_lock, j,
                   commits, trace>>

\* if update_necessary is False: print("Everything up to date")
Report ==
    /\ pc = "report"
    /\ pc' = "done"
    /\ trace' = IF update_necessary = FALSE
                THEN Append(trace, NoEv("up_to_date", ""))
                ELSE trace
    /\ UNCHANGED <<error, refreshes, env, tier_items, disabled, index, cargo, manifest, lock, start, head, i,
                   name, info_file, latest_version, update_necessary, cargo_lock, j,
                   commits>>

----------------------------------------------------------------------------
(* The run, from the point where the index is refreshed and Cargo.toml parsed *)

Init ==
    /\ pc = "manifest"
    /\ error = ""
    /\ env = FreeEnv
    /\ disabled \in SUBSET DepNames
    /\ index \in [DepNames -> RunFiles]
    /\ cargo \in [1..NDeps -> RunVersions]
    /\ manifest = cargo
    /\ lock = RunLock
    /\ start = [toml |-> manifest, lock |-> lock]
    /\ head = start
    /\ refreshes = 1
    /\ tier_items = <<>>
    /\ i = 1
    /\ name = <<>>
    /\ info_file = <<>>
    /\ latest_version = None
    /\ update_necessary = FALSE
    /\ cargo_lock = <<>>
    /\ j = 1
    /\ commits = <<>>
    /\ trace = <<>>

Next ==
    \/ ProcessDependency
    \/ ReadLock
    \/ UpdatePackage
    \/ LoopExit
    \/ Report

Spec == Init /\ [][Next]_vars

----------------------------------------------------------------------------
(* The lock loop on its own: a run whose manifest pass found every pin up  *)
(* to date, over every order of the packages in Cargo.lock, with a         *)
(* resolver that is free or that follows a chain of transitive updates     *)

LockOrders ==
    {[k \in 1..NLock |-> Package(PackageNames[p[k]], 0)] :
        p \in {q \in [1..NLock -> 1..NLock] : Injective(q)}}

Chains ==
    {c \in SeqsUpTo({PackageNames[k] : k \in 1..NLock}, NLock) : Injective(c)}

UpToDateManifest == [d \in 1..NDeps |-> V100]

InitLock ==
    /\ pc = "lockread"
    /\ error = ""
    /\ \/ env = FreeEnv /\ lock = InitialLock
       \/ \E c \in Chains : env = [kind |-> "chain", chain |-> c]
          /\ lock \in LockOrders
    /\ disabled = {}
    /\ index = [nm \in DepNames |-> <<V100>>]
    /\ cargo = UpToDateManifest
    /\ manifest = cargo
    /\ start = [toml |-> manifest, lock |-> lock]
    /\ head = start
    /\ refreshes = 1
    /\ tier_items = <<>>
    /\ i = NDeps + 1
    /\ name = Chars(DepOrder[NDeps].name)
    /\ info_file = InfoFile(name, <<>>)
    /\ latest_version = V100
    /\ update_necessary = FALSE
    /\ cargo_lock = <<>>
    /\ j = 1
    /\ commits = <<>>
    /\ trace = <<>>

NextLock ==
    \/ ReadLock
    \/ UpdatePackage
    \/ LoopExit
    \/ Report

SpecLock == InitLock /\ [][NextLock]_vars

----------------------------------------------------------------------------
(* Version selection on its own: the loop over the info file of the first  *)
(* dependency, for every pinned version and every info file                *)

SelectLatest ==
    /\ pc = "select"
    /\ latest_version' = LatestVersion(cargo[1], index[DepOrder[1].name])
    /\ pc' = "selected"
    /\ UNCHANGED <<error, refreshes, env, tier_items, disabled, index, cargo, manifest, lock, start, head, i,
                   name, info_file, update_necessary, cargo_lock, j, commits, trace>>

InitSelect ==
    /\ pc = "select"
    /\ error = ""
    /\ env = FreeEnv
    /\ disabled = {}
    /\ \E lines \in SeqsUpTo(AllVersions, MaxRecords) :
          index = [nm \in DepNames |-> IF nm = DepOrder[1].name THEN lines ELSE <<>>]
    /\ \E current \in AllVersions :
          cargo = [d \in 1..NDeps |-> IF d = 1 THEN current ELSE V100]
    /\ manifest = cargo
    /\ lock = RunLock
    /\ start = [toml |-> manifest, lock |-> lock]
    /\ head = start
    /\ refreshes = 1
    /\ tier_items = <<>>
    /\ i = 1
    /\ name = <<>>
    /\ info_file = <<>>
    /\ latest_version = None
    /\ update_necessary = FALSE
    /\ cargo_lock = <<>>
    /\ j = 1
    /\ commits = <<>>
    /\ trace = <<>>

NextSelect == SelectLatest

SpecSelect == InitSelect /\ [][NextSelect]_vars

----------------------------------------------------------------------------
(* The sharding of the index alone: the path of the info file of one name,
   computed after the path of an earlier dependency.  cargo update --dry-run
   has accepted the manifest before the loop runs, so that no name is empty. *)

Alphabet == {"a", "b"}

ExampleNames == {<<"a", "b", "c">>, <<"a", "b", "c", "d">>}

Names == (UNION {[1..k -> Alphabet] : k \in 1..MaxNameLen}) \cup ExampleNames

\* lines 50 to 57 for the name the for statement has bound
ShardName ==
    /\ pc = "shard"
    /\ info_file' = InfoFile(name, info_file)
    /\ pc' = "sharded"
    /\ UNCHANGED <<error, refreshes, env, tier_items, disabled, index, cargo, manifest, lock, start, head, i,
                   name, latest_version, update_necessary, cargo_lock, j, commits,
                   trace>>

InitShard ==
    /\ pc = "shard"
    /\ error = ""
    /\ env = FreeEnv
    /\ disabled = {}
    /\ index = [nm \in DepNames |-> <<>>]
    /\ cargo = [d \in 1..NDeps |-> V100]
    /\ manifest = cargo
    /\ lock = RunLock
    /\ start = [toml |-> manifest, lock |-> lock]
    /\ head = start
    /\ refreshes = 1
    /\ tier_items = <<>>
    /\ i = 1
    /\ name \in Names
    /\ info_file \in {<<>>} \cup {InfoFile(earlier, <<>>) : earlier \in Names}
    /\ latest_version = None
    /\ update_necessary = FALSE
    /\ cargo_lock = <<>>
    /\ j = 1
    /\ commits = <<>>
    /\ trace = <<>>

NextShard == ShardName

SpecShard == InitShard /\ [][NextShard]_vars

----------------------------------------------------------------------------
(* Two runs: the script is started a second time, after the end or the abort
   of the first run, on the files the first run left and on the same index *)

RunStarts == {k \in 1..Len(trace) : trace[k].op = "run_start"}

\* the start of the script: Cargo.toml is parsed anew
\* the event of the trace records whether the run before came to its end
Rerun ==
    /\ pc \in {"done", "aborted"}
    /\ RunStarts = {}
    /\ pc' = "manifest"
    /\ error' = ""
    /\ cargo' = manifest
    /\ start' = [toml |-> manifest, lock |-> lock]
    /\ refreshes' = refreshes + 1
    /\ i' = 1
    /\ name' = <<>>
    /\ info_file' = <<>>
    /\ latest_version' = None
    /\ update_necessary' = FALSE
    /\ cargo_lock' = <<>>
    /\ j' = 1
    /\ trace' = Append(trace, Ev("run_start", "", None, -1, pc = "done", FALSE, 0))
    /\ UNCHANGED <<env, tier_items, disabled, index, manifest, lock, head, commits>>

NextRerun ==
    \/ Next
    \/ Rerun

\* the first run starts with nothing disabled and on an index it can read
InitRerun ==
    /\ Init
    /\ disabled = {}
    /\ index \in [DepNames -> InfoFiles(RunVersions, MaxIndexLines)]

SpecRerun == InitRerun /\ [][NextRerun]_vars

----------------------------------------------------------------------------
(* The cargo-upgrade script, src/update-cargo-dependencies.py: for every
   dependency of every tier, cargo upgrade --package <name>, then a commit of
   what it changed.  Pins are numbers here: cargo upgrade raises them. *)

\* the dependencies of ./Cargo.toml, in the order of the two for loops
UpgradeOrder ==
    <<[tier |-> "dependencies", name |-> "clap"],
      [tier |-> "dependencies", name |-> "serde"],
      [tier |-> "dev-dependencies", name |-> "tempdir"]>>

NUpgrade == Len(UpgradeOrder)

\* the inner for loop starts at dependency d: cargo[tier].items() is evaluated
FirstOfTier(d) == d = 1 \/ UpgradeOrder[d - 1].tier # UpgradeOrder[d].tier

\* the items the inner for loop iterates at dependency d: those of the
\* document that cargo named when the loop over the tier started
TierItems(d) == IF FirstOfTier(d) THEN cargo ELSE tier_items

\* what cargo upgrade can leave in ./Cargo.toml: every pin as it was or raised
UpgradedManifests(toml) ==
    {m \in [1..NUpgrade -> 0..MaxPin] :
        \A e \in 1..NUpgrade : m[e] = toml[e] \/ m[e] = toml[e] + 1}

\* what cargo upgrade --recursive can leave in ./Cargo.lock
UpgradedLocks(lk) == {lk} \cup {Bump(lk, S) : S \in ChangeSets(lk)}

UpgradeOutcome(ok, toml, lk) == [ok |-> ok, toml |-> toml, lock |-> lk]

\* cargo upgrade --incompatible --pinned --ignore-rust-version --recursive
\* --package <name>: it exits non-zero, or with 0 and the files it leaves
UpgradeOutcomes(toml, lk) ==
    {UpgradeOutcome(FALSE, toml, lk)}
       \cup {UpgradeOutcome(TRUE, m, l) :
                 m \in UpgradedManifests(toml), l \in UpgradedLocks(lk)}

\* the for loops go on; the report follows the last dependency
UpgradeContinue ==
    /\ i' = i + 1
    /\ pc' = IF i + 1 > NUpgrade THEN "upreport" ELSE "upgrade"
    /\ error' = error

UpgradeAbort(exc) ==
    /\ Abort(exc)
    /\ i' = i

\* version != new_version: git commit ./Cargo.lock ./Cargo.toml
VersionChanged(nm, new_version, o, done) ==
    /\ update_necessary' = TRUE
    /\ \E c \in CommitOutcomes(ManifestCommitPaths, o.toml, o.lock) :
          /\ trace' = trace \o done \o
                <<Ev("commit", nm, None, -1, c, FALSE, new_version)>>
          /\ \/ /\ c
                /\ commits' = Append(commits,
                      Commit("version", nm, new_version, ManifestCommitPaths,
                             o.toml, o.lock))
                /\ head' = HeadAfter(ManifestCommitPaths, o.toml, o.lock)
                /\ UpgradeContinue
             \/ /\ ~c
                /\ UpgradeAbort("CalledProcessError")
                /\ UNCHANGED <<head, commits>>

\* else: git diff --exit-code ./Cargo.lock, a commit of ./Cargo.lock when it
\* differs, then git diff --exit-code ./Cargo.toml with check=True
VersionUnchanged(nm, o, done) ==
    LET differs == o.lock # head.lock
        committed == IF differs THEN HeadAfter(LockCommitPaths, o.toml, o.lock) ELSE head
        steps == done \o <<Ev("diff_lock", nm, None, -1, ~differs, FALSE, 0)>>
                      \o (IF differs
                          THEN <<Ev("commit", nm, None, 0, TRUE, FALSE, 0)>>
                          ELSE <<>>)
    IN  /\ UNCHANGED update_necessary
        /\ head' = committed
        /\ commits' = IF differs
                      THEN Append(commits,
                              Commit("transitive", nm, None, LockCommitPaths,
                                     head.toml, o.lock))
                      ELSE commits
        /\ trace' = steps \o
              <<Ev("diff_manifest", nm, None, -1, o.toml = head.toml, FALSE, 0)>>
        /\ IF o.toml = head.toml
           THEN UpgradeContinue
           ELSE UpgradeAbort("CalledProcessError")

\* one iteration of the inner for loop
UpgradeDependency ==
    /\ pc = "upgrade"
    /\ i <= NUpgrade
    /\ LET nm == UpgradeOrder[i].name
           version == TierItems(i)[i]
       IN  /\ tier_items' = TierItems(i)
           /\ \E o \in UpgradeOutcomes(manifest, lock) :
                 LET done == <<NoEv("checking", nm),
                               Ev("upgrade", nm, None, -1, o.ok, FALSE, 0)>>
                 IN  \/ /\ ~o.ok
                        /\ trace' = trace \o done
                        /\ UpgradeAbort("CalledProcessError")
                        /\ UNCHANGED <<cargo, manifest, lock, head, commits,
                                       update_necessary>>
                     \/ /\ o.ok
                        /\ manifest' = o.toml
                        /\ lock' = o.lock
                        /\ cargo' = o.toml
                        /\ IF version # o.toml[i]
                           THEN VersionChanged(nm, o.toml[i], o, done)
                           ELSE VersionUnchanged(nm, o, done)
    /\ UNCHANGED <<refreshes, env, disabled, index, start, name, info_file,
                   latest_version, cargo_lock, j>>

\* if update_necessary is False: print("Everything up to date")
UpgradeReport ==
    /\ pc = "upreport"
    /\ pc' = "done"
    /\ trace' = IF update_necessary = FALSE
                THEN Append(trace, NoEv("up_to_date", ""))
                ELSE trace
    /\ UNCHANGED <<error, refreshes, env, tier_items, disabled, index, cargo, manifest,
                   lock, start, head, i, name, info_file, latest_version,
                   update_necessary, cargo_lock, j, commits>>

\* ./Cargo.toml is parsed; the working tree is clean
InitUpgrade ==
    /\ pc = "upgrade"
    /\ error = ""
    /\ env = FreeEnv
    /\ disabled = {}
    /\ index = [nm \in DepNames |-> <<>>]
    /\ cargo \in [1..NUpgrade -> 0..(MaxPin - 1)]
    /\ manifest = cargo
    /\ lock = RunLock
    /\ start = [toml |-> manifest, lock |-> lock]
    /\ head = start
    /\ refreshes = 0
    /\ tier_items = <<>>
    /\ i = 1
    /\ name = <<>>
    /\ info_file = <<>>
    /\ latest_version = None
    /\ update_necessary = FALSE
    /\ cargo_lock = <<>>
    /\ j = 1
    /\ commits = <<>>
    /\ trace = <<>>

NextUpgrade ==
    \/ UpgradeDependency
    \/ UpgradeReport

SpecUpgrade == InitUpgrade /\ [][NextUpgrade]_vars

\* the lock loop under the scheduling of a sequential script: it goes on as
\* long as it has a step to take
LiveLock == SpecLock /\ WF_vars(NextLock)

----------------------------------------------------------------------------
(* What the trace and the policy of the specification say of a state *)

Max(S) == CHOOSE x \in S : \A y \in S : y <= x

Reads == {k \in 1..Len(trace) : trace[k].op = "read_lock"}

\* the resolver invocations of the lock loop
LoopResolves == {k \in 1..Len(trace) : trace[k].op = "resolve" /\ trace[k].lver >= 0}

ChangeSteps == {k \in LoopResolves : trace[k].changed}

LockCommits == {k \in 1..Len(commits) : commits[k].kind = "lock"}
ManifestCommits == {k \in 1..Len(commits) : commits[k].kind = "manifest"}

\* what the loop did since it last read Cargo.lock
LastPass ==
    SelectSeq(SubSeq(trace, Max(Reads) + 1, Len(trace)), LAMBDA e : e.op # "up_to_date")

LoopEnded == pc \in {"report", "done"}

RECURSIVE Touched(_)
Touched(k) ==
    IF k = 0 THEN 0
    ELSE Touched(k - 1) + (IF k \in LoopResolves THEN trace[k].n ELSE 0)

\* the lockfile entries the lock loop changed
TouchedEntries == Touched(Len(trace))

Eligible(current, lines) ==
    {lines[k] : k \in {n \in DOMAIN lines :
                          current.prerelease # <<>> \/ lines[n].prerelease = <<>>}}

MaxEligible(current, lines) ==
    CHOOSE m \in Eligible(current, lines) :
        \A e \in Eligible(current, lines) : compare(m, e) >= 0

\* the file is there and all its lines parse
Readable(lines) == lines # NoFile /\ \A k \in DOMAIN lines : lines[k] # Malformed

Policy(current, lines) ==
    IF ~Readable(lines) THEN "error"
    ELSE IF Eligible(current, lines) = {} THEN "none"
    ELSE IF compare(MaxEligible(current, lines), current) = 0 THEN "hold"
    ELSE IF compare(MaxEligible(current, lines), current) < 0 THEN "anomaly"
    ELSE "upgrade"

Processing == pc = "manifest" /\ i <= NDeps
NameAt(d) == DepOrder[d].name
PolicyAt(d) == Policy(manifest[d], index[NameAt(d)])
MaxAt(d) == MaxEligible(manifest[d], index[NameAt(d)])

\* the step wrote no manifest, invoked no resolver and attempted no commit
NoToolStep ==
    \A k \in (Len(trace) + 1)..Len(trace') :
        trace'[k].op \notin {"write_manifest", "resolve", "commit"}

Warned(d) == \E k \in 1..Len(trace) : trace[k] = NoEv("warn_anomaly", NameAt(d))

----------------------------------------------------------------------------
(* The claims *)

\* C1: when the lock loop ends normally, its last pass read Cargo.lock once,
\* invoked the resolver on every package of that read, in the order of the
\* file, and every one of these invocations reported no change; the file on
\* disk is still the one the pass read.
C1_ExitOnlyAtFixpoint ==
    LoopEnded =>
        /\ Reads # {}
        /\ cargo_lock = lock
        /\ Len(LastPass) = Len(cargo_lock)
        /\ \A k \in 1..Len(LastPass) :
              LastPass[k] = Ran(cargo_lock[k].name, cargo_lock[k].version,
                                Outcome(TRUE, FALSE, lock, 0))

C1_Witness ==
    /\ pc = "report"
    /\ env.kind = "free"
    /\ Len(cargo_lock) = NLock
    /\ Len(commits) >= 1

\* C2: with a resolver that can change the lockfile only finitely often, the
\* lock loop eventually ends (normally, or by the abort of the run).
C2_Terminates == <>(pc \in {"done", "aborted"})

C2_Witness ==
    /\ pc = "done"
    /\ Len(commits) >= 1
    /\ Cardinality(Reads) >= 2

\* C3: with a chain of k transitive updates, for every order of the packages
\* in Cargo.lock, the lock loop never aborts and ends after exactly k commits
\* of a change and k + 1 passes, the last of which changed nothing.
C3_ChainTakesKCommits ==
    env.kind = "chain" =>
        /\ pc # "aborted"
        /\ LoopEnded =>
              /\ Len(commits) = Len(env.chain)
              /\ LockCommits = 1..Len(commits)
              /\ Cardinality(ChangeSteps) = Len(env.chain)
              /\ Cardinality(Reads) = Len(env.chain) + 1
              /\ \A k \in 1..Len(LastPass) : ~LastPass[k].changed

C3_Witness ==
    /\ env.kind = "chain"
    /\ pc = "done"
    /\ Len(env.chain) = NLock
    /\ lock[1].name = env.chain[NLock]
    /\ Len(commits) = NLock

\* C4, as the specification states it: a run whose lock loop touched m
\* entries of Cargo.lock leaves exactly m + 1 commits of the lock loop.
C4_Original == pc = "done" => Cardinality(LockCommits) = TouchedEntries + 1

\* C4, amended: a run that ends normally leaves exactly one commit of
\* Cargo.lock for each resolver invocation of the lock loop that reported a
\* change and one commit for each manifest write, and no other commit; the
\* last pass, which changes nothing, commits nothing.
C4_OneCommitPerStep ==
    LoopEnded =>
        /\ Cardinality(LockCommits) = Cardinality(ChangeSteps)
        /\ Cardinality(ManifestCommits) =
              Cardinality({k \in 1..Len(trace) : trace[k].op = "write_manifest"})
        /\ Len(commits) = Cardinality(ManifestCommits) + Cardinality(LockCommits)
        /\ \A k \in 1..Len(LastPass) : LastPass[k].op # "commit"

C4_Witness ==
    /\ pc = "done"
    /\ Cardinality(ManifestCommits) = 2
    /\ Cardinality(LockCommits) >= 1

\* C5: the selected version is the semver maximum of the eligible lines of the
\* info file, a prerelease being eligible iff the pinned version is one, and
\* None when no line is eligible; so it does not depend on the order of the
\* lines.
C5_SelectsMaxEligible ==
    pc = "selected" =>
        LET current == cargo[1]
            lines == index[NameAt(1)]
            E == Eligible(current, lines)
        IN  /\ E = {} => latest_version = None
            /\ E # {} => /\ latest_version \in E
                         /\ \A e \in E : compare(latest_version, e) >= 0
            /\ (current = V100 /\ {lines[k] : k \in DOMAIN lines} = {V110b1, V101})
                  => latest_version = V101
            /\ (current = V100a1 /\ {lines[k] : k \in DOMAIN lines} = {V110b1, V101})
                  => latest_version = V110b1

C5_Witness ==
    /\ pc = "selected"
    /\ cargo[1] = V100a1
    /\ index[NameAt(1)] = <<V110b1, V101>>
    /\ latest_version = V110b1

\* C6: on an anomaly (the maximum eligible version is lower than the pin of a
\* dependency that is not disabled) the step only logs a warning: no manifest
\* write, no resolver invocation, no commit, and the run goes on.
C6_AnomalyOnlyWarns ==
    [][(Processing /\ NameAt(i) \notin disabled /\ PolicyAt(i) = "anomaly") =>
          /\ NoToolStep
          /\ trace' = Append(trace, NoEv("warn_anomaly", NameAt(i)))
          /\ pc' # "aborted"
          /\ UNCHANGED <<manifest, lock, commits>>]_vars

\* C7: no pin of Cargo.toml is ever lower than at the start of the run, and
\* the pin of a dependency the run warned about is exactly what it was.
C7_NeverDowngrades ==
    \A d \in 1..NDeps :
        /\ compare(manifest[d], start.toml[d]) >= 0
        /\ Warned(d) => manifest[d] = start.toml[d]

C7_Witness ==
    /\ Warned(2)
    /\ PolicyAt(2) = "anomaly"
    /\ compare(manifest[1], start.toml[1]) > 0

\* C8: when no line of the info file is eligible, the step holds: no manifest
\* write, no resolver invocation, no commit, and the run goes on with the
\* next dependency.
C8_NoCandidateHolds ==
    [][(Processing /\ PolicyAt(i) = "none") =>
          /\ NoToolStep
          /\ pc' # "aborted"
          /\ i' = i + 1
          /\ UNCHANGED <<manifest, lock, commits>>]_vars

\* C9: when the maximum eligible version equals the pin, the step writes no
\* manifest, invokes no resolver, makes no commit and leaves update_necessary
\* as it is.
C9_HoldChangesNothing ==
    [][(Processing /\ PolicyAt(i) = "hold") =>
          /\ NoToolStep
          /\ UNCHANGED <<manifest, cargo, lock, head, commits, update_necessary>>]_vars

C9_Witness ==
    /\ pc = "manifest"
    /\ i = 2
    /\ PolicyAt(1) = "hold"
    /\ NameAt(1) \notin disabled
    /\ PolicyAt(2) = "upgrade"
    /\ trace = <<>>

\* C10: for a disabled dependency with a newer eligible version the step
\* reports that version and does nothing else: no manifest write, no resolver
\* invocation, no commit.
C10_DisabledOnlyReports ==
    [][(Processing /\ NameAt(i) \in disabled /\ PolicyAt(i) = "upgrade") =>
          /\ trace' = Append(trace, Ev("report_disabled", NameAt(i), MaxAt(i), -1,
                                       TRUE, FALSE, 0))
          /\ UNCHANGED <<manifest, cargo, lock, head, commits>>]_vars

C10_Witness ==
    /\ i = 2
    /\ NameAt(1) \in disabled
    /\ PolicyAt(1) = "upgrade"
    /\ trace = <<Ev("report_disabled", NameAt(1), MaxAt(1), -1, TRUE, FALSE, 0)>>
    /\ manifest = start.toml
    /\ commits = <<>>

----------------------------------------------------------------------------
(* The second run *)

\* the events of the second run
SecondRun == {k \in 1..Len(trace) : \E r \in RunStarts : r < k}

\* the second run was started after a first run that came to its end
AfterCompletedRun == \E r \in RunStarts : trace[r].ok

\* the second run was started after a first run that aborted
AfterAbortedRun == \E r \in RunStarts : ~trace[r].ok

\* C11: the manifest pass of a run started directly after a run that completed
\* without abort, on the same index, writes no manifest and makes no commit.
C11_SecondPassIsSilent ==
    AfterCompletedRun =>
       \A k \in SecondRun :
          /\ trace[k].op # "write_manifest"
          /\ ~(trace[k].op = "commit" /\ trace[k].lver = -1 /\ trace[k].ok)

----------------------------------------------------------------------------
(* Failures *)

FailedResolves == {k \in 1..Len(trace) : trace[k].op = "resolve" /\ ~trace[k].ok}

\* C12: a resolver invocation that exits non-zero is the last tool step of the
\* run: its stdout and its stderr are printed, the run is aborted with the
\* CalledProcessError, and no resolver invocation, manifest write or commit
\* comes after it.
C12_ResolverFailureAborts ==
    \A k \in FailedResolves :
        /\ Len(trace) = k + 2
        /\ trace[k + 1] = NoEv("print_stdout", trace[k].name)
        /\ trace[k + 2] = NoEv("print_stderr", trace[k].name)
        /\ pc = "aborted"
        /\ error = "CalledProcessError"

\* the resolver fails in the lock loop, after a commit of the manifest pass
C12_Witness ==
    /\ pc = "aborted"
    /\ \E k \in FailedResolves : trace[k].lver >= 0
    /\ ManifestCommits # {}

\* the run has stopped: at its end or at an uncaught exception
Stopped == pc \in {"done", "aborted"}

\* C13: wherever the run stops, Cargo.toml on disk is the Cargo.toml of the
\* last commit and Cargo.lock on disk is the Cargo.lock of the last commit: no
\* change of the run is left on disk uncommitted.
C13_StopsCommitted ==
    Stopped => manifest = head.toml /\ lock = head.lock

\* C14: a run started after an aborted run, on the same index and with a
\* resolver that succeeds, ends as an uninterrupted run ends: every pin it
\* leaves in Cargo.toml, and the Cargo.lock it leaves, is in the last commit.
C14_AbortedRunIsResumed ==
    (AfterAbortedRun /\ pc = "done") => manifest = head.toml /\ lock = head.lock

----------------------------------------------------------------------------
(* Commits *)

\* Cargo.toml or Cargo.lock differs from the last commit
Dirty == manifest # head.toml \/ lock # head.lock

\* the commits the step requests
StepCommits == {k \in (Len(trace) + 1)..Len(trace') : trace'[k].op = "commit"}

\* C15: a step that requests a commit while Cargo.toml or Cargo.lock carries
\* modifications from before the step, which the step did not make, has
\* its commit fail and aborts the run: no commit is added.
C15_DirtyCommitFails ==
    [][(Dirty /\ StepCommits # {}) =>
          /\ pc' = "aborted"
          /\ commits' = commits
          /\ head' = head]_vars

\* C16: every commit names its paths: Cargo.toml and Cargo.lock for a commit
\* of the manifest pass, Cargo.lock alone for a commit of the lock loop; the
\* commit takes the paths it names as they are on disk and leaves every other
\* file as the commit before had it, and a step without a commit leaves the
\* last commit as it was.
C16_CommitsCoverTheirPaths ==
    [][IF Len(commits') = Len(commits) + 1
       THEN LET c == commits'[Len(commits')]
            IN  /\ SubSeq(commits', 1, Len(commits)) = commits
                /\ c.paths = IF c.kind = "manifest"
                             THEN {"Cargo.toml", "Cargo.lock"}
                             ELSE {"Cargo.lock"}
                /\ head'.toml = IF "Cargo.toml" \in c.paths THEN manifest' ELSE head.toml
                /\ head'.lock = IF "Cargo.lock" \in c.paths THEN lock' ELSE head.lock
                /\ c.toml = head'.toml
                /\ c.lock = head'.lock
       ELSE commits' = commits /\ head' = head]_vars

\* a commit of the lock loop was made while Cargo.toml held an uncommitted pin
C16_Witness ==
    /\ commits # <<>>
    /\ commits[Len(commits)].kind = "lock"
    /\ manifest # head.toml
    /\ lock = head.lock

\* the commits the run made, as positions of the trace, in their order
CommitEvents == {k \in 1..Len(trace) : trace[k].op = "commit" /\ trace[k].ok}

\* the position of the trace at which commit c of the run was made
CommitEvent(c) ==
    CHOOSE k \in CommitEvents : Cardinality({b \in CommitEvents : b <= k}) = c

\* what was committed before commit c
Before(c) ==
    IF c = 1 THEN start ELSE [toml |-> commits[c - 1].toml, lock |-> commits[c - 1].lock]

\* the pins that commit c changes
PinsChanged(c) == {d \in 1..NDeps : commits[c].toml[d] # Before(c).toml[d]}

\* the resolver invocations since the commit before c that changed Cargo.lock
EffectsIn(c) ==
    {k \in ((IF c = 1 THEN 0 ELSE CommitEvent(c - 1)) + 1)..CommitEvent(c) :
        trace[k].op = "resolve" /\ trace[k].n > 0}

\* C17: every commit of the manifest pass holds the pin change of exactly one
\* dependency, and every commit of the lock loop holds the effect of exactly
\* one resolver invocation.
C17_OneChangePerCommit ==
    \A c \in 1..Len(commits) :
        /\ commits[c].kind = "manifest" => Cardinality(PinsChanged(c)) = 1
        /\ commits[c].kind = "lock" => Cardinality(EffectsIn(c)) = 1

\* the commits the run requested, made or failed
CommitRequests == {k \in 1..Len(trace) : trace[k].op = "commit"}

\* the last resolver invocation before position k of the trace, 0 if none
ResolveBefore(k) ==
    IF \E p \in 1..(k - 1) : trace[p].op = "resolve"
    THEN Max({p \in 1..(k - 1) : trace[p].op = "resolve"})
    ELSE 0

\* C18: every commit the run requests comes after a resolver invocation for the
\* same name that exited with 0, and between that invocation and the commit
\* the run only prints: it writes no file and invokes no tool.
C18_CommitFollowsResolver ==
    \A k \in CommitRequests :
        LET p == ResolveBefore(k)
        IN  /\ p > 0
            /\ trace[p].ok
            /\ trace[p].name = trace[k].name
            /\ \A b \in (p + 1)..(k - 1) : trace[b].op = "print_message"

\* a run that committed in the manifest pass and in the lock loop
C18_Witness ==
    /\ pc = "done"
    /\ ManifestCommits # {}
    /\ LockCommits # {}

----------------------------------------------------------------------------
(* The index *)

\* C19: the path of the info file is INDEX/<characters 1-2>/<characters 3-4>/
\* <name> for a name of 4 or more characters, INDEX/3/<first character>/<name>
\* for 3 characters, INDEX/2/<name> for 2 and INDEX/1/<name> for 1, whatever
\* path the dependency before had: ab is at 2/ab, abc at 3/a/abc, abcd at
\* ab/cd/abcd.
C19_ShardedByName ==
    pc = "sharded" =>
       /\ Len(info_file) >= 3
       /\ info_file[1] = IndexDir
       /\ info_file[Len(info_file)] = name
       /\ Len(name) >= 4 =>
             /\ Len(info_file) = 4
             /\ info_file[2] = <<name[1], name[2]>>
             /\ info_file[3] = <<name[3], name[4]>>
       /\ Len(name) = 3 =>
             /\ Len(info_file) = 4
             /\ info_file[2] = <<"3">>
             /\ info_file[3] = <<name[1]>>
       /\ Len(name) = 2 => Len(info_file) = 3 /\ info_file[2] = <<"2">>
       /\ Len(name) = 1 => Len(info_file) = 3 /\ info_file[2] = <<"1">>
       /\ name = <<"a", "b">> => info_file = <<IndexDir, <<"2">>, <<"a", "b">>>>
       /\ name = <<"a", "b", "c">> =>
             info_file = <<IndexDir, <<"3">>, <<"a">>, <<"a", "b", "c">>>>
       /\ name = <<"a", "b", "c", "d">> =>
             info_file = <<IndexDir, <<"a", "b">>, <<"c", "d">>, <<"a", "b", "c", "d">>>>

\* abcd has got its path
C19_Witness ==
    /\ pc = "sharded"
    /\ name = <<"a", "b", "c", "d">>
    /\ info_file = <<IndexDir, <<"a", "b">>, <<"c", "d">>, name>>

\* C20: when the info file of the dependency is not in the index, or one of its
\* lines does not parse, the step aborts the run with the exception of the
\* read, at that dependency: it writes no manifest, invokes no resolver,
\* requests no commit, and leaves the files and the commits as they are.
C20_IndexErrorAborts ==
    [][(Processing /\ PolicyAt(i) = "error") =>
          /\ pc' = "aborted"
          /\ error' = IF index[NameAt(i)] = NoFile THEN "FileNotFoundError"
                                                  ELSE "ValueError"
          /\ UNCHANGED <<i, trace, cargo, manifest, lock, head, commits>>]_vars

\* the second dependency has a newer version in its file and then a line that
\* does not parse; the first dependency was committed
C20_Witness ==
    /\ pc = "aborted"
    /\ error = "ValueError"
    /\ i = 2
    /\ index[NameAt(2)] = <<V101, Malformed>>
    /\ manifest[2] = V100
    /\ Len(commits) = 1
    /\ head.toml = manifest

----------------------------------------------------------------------------
(* The manifest *)

\* the step wrote Cargo.toml
WroteManifest ==
    \E k \in (Len(trace) + 1)..Len(trace') : trace'[k].op = "write_manifest"

\* C21: the write of Cargo.toml for dependency i gives entry i its new pin and
\* leaves every other entry, of either tier, with the value Cargo.toml had on
\* disk before the write.
C21_WriteChangesOneEntry ==
    [][(Processing /\ WroteManifest) =>
          /\ \A d \in 1..NDeps : d # i => manifest'[d] = manifest[d]
          /\ manifest'[i] = NewPin(latest_version', manifest[i])]_vars

\* the dependency of the second tier is bumped after that of the first tier
C21_Witness ==
    /\ Len(commits) >= 2
    /\ commits[1].kind = "manifest" /\ commits[2].kind = "manifest"
    /\ manifest[1] # start.toml[1]
    /\ manifest[2] # start.toml[2]
    /\ DepOrder[1].tier # DepOrder[2].tier

\* the resolver invocations of the step
StepResolves == {k \in (Len(trace) + 1)..Len(trace') : trace'[k].op = "resolve"}

\* C22: the index is refreshed before the first dependency is examined and not
\* again: every resolver invocation of the manifest pass and of the lock loop
\* is made with no-index-update, and no step of the run refreshes the index.
C22_IndexRefreshedOnce ==
    [][/\ refreshes' = refreshes
       /\ \A k \in StepResolves : "no-index-update" \in trace'[k].flags]_vars

\* a run that invoked the resolver in the manifest pass and in the lock loop
C22_Witness ==
    /\ pc = "done"
    /\ refreshes = 1
    /\ \E k \in 1..Len(trace) : trace[k].op = "resolve" /\ trace[k].lver = -1
    /\ \E k \in 1..Len(trace) : trace[k].op = "resolve" /\ trace[k].lver >= 0

----------------------------------------------------------------------------
(* The lock loop *)

\* the step invoked the resolver, which exited with 0 and reported a change
StepReportsChange == \E k \in StepResolves : trace'[k].ok /\ trace'[k].changed

\* C23: the lock loop invokes the resolver on entry j of a snapshot that is
\* the Cargo.lock on disk; when the invocation reports a change the step
\* commits it and goes back to read Cargo.lock (or the commit fails and the
\* run aborts), and the read takes the file on disk and starts at its first
\* entry: no entry of a snapshot older than the last change is resolved.
C23_RestartsOnFreshSnapshot ==
    [][/\ (pc = "lockiter" /\ StepResolves # {}) =>
             /\ cargo_lock = lock
             /\ \A k \in StepResolves :
                   /\ trace'[k].name = cargo_lock[j].name
                   /\ trace'[k].lver = cargo_lock[j].version
       /\ (pc = "lockiter" /\ StepReportsChange) =>
             \/ pc' = "aborted" /\ commits' = commits
             \/ /\ Len(commits') = Len(commits) + 1
                /\ commits'[Len(commits')].lock = lock'
                /\ pc' = "lockread"
       /\ pc = "lockread" =>
             /\ pc' = "lockiter"
             /\ cargo_lock' = lock
             /\ j' = 1]_vars

\* a change of a later entry was committed, Cargo.lock was read again, and the
\* resolver was invoked on the first entry of that read, with its new version
C23_Witness ==
    \E k \in 3..(Len(trace) - 2) :
        /\ trace[k].op = "commit" /\ trace[k].ok /\ trace[k].lver >= 0
        /\ trace[k].name # lock[1].name
        /\ trace[k + 1].op = "read_lock"
        /\ trace[k + 2].op = "resolve"
        /\ trace[k + 2].name = lock[1].name
        /\ trace[k + 2].lver > 0

\* the run is in the lock loop or past it
InLoop == pc \in {"lockread", "lockiter", "report"}

\* the commits the step made
StepCommitsMade == {c \in (Len(commits) + 1)..Len(commits') : TRUE}

\* C24: the manifest pass takes the dependencies in the order of the tiers,
\* dependencies before dev-dependencies, and the lock loop starts when the
\* last of them has been processed; from then on no step writes Cargo.toml or
\* commits it; and Cargo.lock changes only in a step that invokes the resolver.
C24_LoopAfterManifestPass ==
    [][/\ Processing =>
             /\ name' = Chars(DepOrder[i].name)
             /\ \A d \in 1..(i - 1) : DepOrder[i].tier = "dependencies" =>
                                           DepOrder[d].tier = "dependencies"
             /\ pc' = "manifest" => i' = i + 1
             /\ pc' = "lockread" => i = NDeps /\ i' = NDeps + 1
             /\ pc' \in {"manifest", "lockread", "aborted"}
       /\ InLoop =>
             /\ i = NDeps + 1
             /\ pc' # "manifest"
             /\ UNCHANGED <<i, manifest, cargo>>
             /\ head'.toml = head.toml
             /\ ~WroteManifest
             /\ \A c \in StepCommitsMade : commits'[c].paths = {"Cargo.lock"}
       /\ lock' # lock => StepResolves # {}]_vars

\* both dependencies were bumped and committed, then the lock loop committed
C24_Witness ==
    /\ pc = "done"
    /\ Len(commits) = 3
    /\ commits[1].kind = "manifest" /\ commits[1].name = DepOrder[1].name
    /\ commits[2].kind = "manifest" /\ commits[2].name = DepOrder[2].name
    /\ commits[3].kind = "lock"
    /\ commits[3].toml = commits[2].toml

----------------------------------------------------------------------------
(* Disabled dependencies *)

\* the step printed the warning of a pin above the index
WarnedAnomaly ==
    \E k \in (Len(trace) + 1)..Len(trace') : trace'[k].op = "warn_anomaly"

\* the step reported the dependency as disabled
ReportedDisabled ==
    \E k \in (Len(trace) + 1)..Len(trace') :
        trace'[k].op = "report_disabled" /\ trace'[k].name = NameAt(i)

\* C25: for a dependency of AUTOUPDATE_DISABLED with a readable info file,
\* whatever the policy says (upgrade, hold, anomaly, no candidate), the step
\* prints no anomaly warning, does not abort, leaves update_necessary as it
\* is, writes and commits nothing, and goes on with the next dependency; it
\* reports the dependency as disabled unless the pin is the latest version.
C25_DisabledAlwaysDisabled ==
    [][(Processing /\ NameAt(i) \in disabled /\ PolicyAt(i) # "error") =>
          /\ ~WarnedAnomaly
          /\ pc' # "aborted"
          /\ i' = i + 1
          /\ NoToolStep
          /\ PolicyAt(i) # "hold" => ReportedDisabled
          /\ UNCHANGED <<update_necessary, manifest, cargo, lock, head, commits>>]_vars

----------------------------------------------------------------------------
(* The cost of the lock loop *)

\* the resolver invocations of the pass that starts with the read at r
PassResolves(r) ==
    {k \in LoopResolves : r < k /\ \A q \in Reads : q > r => k < q}

\* the most entries Cargo.lock has held
MaxEntries == Max({Len(lock), Len(start.lock), Len(cargo_lock)})

\* C26: with k commits of a change and a Cargo.lock of at most n entries, the
\* lock loop has made at most (k + 1) * n resolver invocations: every pass
\* makes at most n, and there are at most k + 1 passes, exactly k + 1 when
\* the loop has ended.
C26_CostBound ==
    LET k == Cardinality(LockCommits)
        n == MaxEntries
    IN  /\ \A r \in Reads : Cardinality(PassResolves(r)) <= n
        /\ Cardinality(Reads) <= k + 1
        /\ LoopEnded => Cardinality(Reads) = k + 1
        /\ Cardinality(LoopResolves) <= (k + 1) * n

\* every change is reported at the last entry: the bound is reached
C26_Witness ==
    /\ pc = "done"
    /\ Cardinality(LockCommits) = MaxUpdates
    /\ Cardinality(LoopResolves) = (MaxUpdates + 1) * NLock

\* the resolver invocation of the step exited with 0
StepResolved == \E k \in StepResolves : trace'[k].ok

\* C27: in the lock loop a commit is requested after a resolver invocation if
\* and only if the invocation changed Cargo.lock: an invocation that leaves
\* the file as it was leads to no commit request and to no abort, and a
\* change is committed in the step of the invocation.
C27_CommitIffChanged ==
    [][(pc = "lockiter" /\ StepResolved) =>
          /\ StepCommits # {} <=> lock' # lock
          /\ lock' = lock => pc' # "aborted"
          /\ lock' # lock =>
                /\ Len(commits') = Len(commits) + 1
                /\ head'.lock = lock']_vars

----------------------------------------------------------------------------
(* The cargo-upgrade script *)

\* the run printed "Everything up to date"
SaidUpToDate == \E k \in 1..Len(trace) : trace[k].op = "up_to_date"

\* C28: a run of the cargo-upgrade script that ends normally prints
\* "Everything up to date" if and only if it made no commit, of a pin or of
\* Cargo.lock alone.
C28_UpToDateIffNoCommit ==
    pc = "done" => (SaidUpToDate <=> commits = <<>>)

\* the step requested the commit "dep: Update <name> to <version>"
RequestedVersionCommit ==
    \E k \in StepCommits : trace'[k].lver = -1

\* C29: the cargo-upgrade script requests the commit "Update <name> to <v>"
\* only in a step whose own cargo upgrade invocation changed the pin of
\* <name>: the new pin is compared with the pin ./Cargo.toml held just before
\* that invocation.
C29_ComparedWithPinBefore ==
    [][(pc = "upgrade" /\ i <= NUpgrade) =>
          (RequestedVersionCommit <=> manifest'[i] # manifest[i])]_vars

\* the commit the step made, if it made one
MadeCommit(paths) ==
    /\ Len(commits') = Len(commits) + 1
    /\ commits'[Len(commits')].paths = paths
    /\ head'.lock = lock'
    /\ "Cargo.toml" \in paths => head'.toml = manifest'

\* C30: in a run of the cargo-upgrade script started on a clean working tree,
\* a step that does not abort leaves ./Cargo.toml and ./Cargo.lock as the
\* last commit has them: a change of the pin of the dependency is committed
\* with Cargo.lock, a change of Cargo.lock alone is committed on its own; and
\* a step that changes ./Cargo.toml but not the pin of its dependency aborts.
C30_CleanAfterEachDependency ==
    [][(pc = "upgrade" /\ i <= NUpgrade) =>
          /\ pc' # "aborted" =>
                /\ manifest' = head'.toml
                /\ lock' = head'.lock
                /\ manifest'[i] # manifest[i] => MadeCommit({"Cargo.toml", "Cargo.lock"})
                /\ (manifest' = manifest /\ lock' # lock) => MadeCommit({"Cargo.lock"})
          /\ (manifest' # manifest /\ manifest'[i] = manifest[i]) => pc' = "aborted"]_vars

====
